---- MODULE Spec2Model ----
(***************************************************************************)
(* Model of usermigrate/main.py: one invocation of main() after another    *)
(* against a persistent working directory (user_cache, <type>_retry_cache) *)
(* and a persistent Keycloak server.  Inside an import pass every record   *)
(* of the batch is one task of process_map's pool of max_workers worker    *)
(* processes; the tasks' remote calls and the steps of cache_object (the   *)
(* test for the file, the open, the buffered write) interleave freely.     *)
(***************************************************************************)
EXTENDS Integers, Sequences, FiniteSets, TLC

\* ------------------------------------------------------------- bounds
\* Longest list of rows the database hands to discover().
MaxUsers == 2
\* Number of invocations of main() in one behaviour.
MaxRuns == 2
\* Number of create calls the server or the transport makes fail (an error
\* other than a conflict, or a falsy return) in one behaviour.
MaxFaults == 2
\* Size of the batch in the specification of the worker pool: one record
\* more than the pool is wide.
PoolBatch == 9

\* ---------------------------------------------------- program constants
\* process_map(..., max_workers=8, chunksize=1)
max_workers == 8

\* ------------------------------------------------------------ records
\* A record is a JSON object: a function from its keys to its values.
UserRecords ==
  { [username |-> "a", groups |-> <<"g1">>],
    [groups |-> <<"g1", "">>] }

\* ------------------------------------------------------------- files
\* A file's content is the sequence of its newline-separated segments, each
\* the sequence of serialized records written back to back in it.  A file
\* that does not exist has no segment; an empty file has one empty segment.
Absent == <<>>
Empty == << <<>> >>

cache_file_path == "user_cache"

retry_cache_path(object_type) ==
  IF object_type = "group" THEN "group_retry_cache" ELSE "user_retry_cache"

Paths == { cache_file_path, retry_cache_path("group"), retry_cache_path("user") }

exists(fs, path) == fs[path] # Absent

remove(fs, path) == [fs EXCEPT ![path] = Absent]

\* open(path, "a"): creates the file when it is missing.
open_append(fs, path) ==
  IF exists(fs, path) THEN fs ELSE [fs EXCEPT ![path] = Empty]

\* cache_file.write("\n") on a file opened for append.
write_newline(fs, path) == [fs EXCEPT ![path] = Append(@, <<>>)]

\* cache_file.write(json.dumps(object_data)) on a file opened for append:
\* the serialization holds no newline and lands at the end of the last segment.
write_json(fs, path, object_data) ==
  [fs EXCEPT ![path] = [@ EXCEPT ![Len(@)] = Append(@, object_data)]]

\* Mutant: the separator is written before every record, the first included.
cache_objectAlwaysNewline(fs, path, object_data) ==
  write_json(write_newline(open_append(fs, path), path), path, object_data)

\* cache_object run by a single process with nobody else writing.
cache_object(fs, path, object_data) ==
  LET add_new_line == exists(fs, path)
      opened == open_append(fs, path)
      sep == IF add_new_line THEN write_newline(opened, path) ELSE opened
  IN  write_json(sep, path, object_data)

\* "for line in users_file": the segments, without the empty one that
\* follows a final newline (or that an empty file consists of).
FileLines(content) ==
  IF content[Len(content)] = <<>> THEN SubSeq(content, 1, Len(content) - 1)
  ELSE content

\* json.loads(line) succeeds on exactly one serialized object; an empty
\* line and two objects back to back both raise.
LineParses(line) == Len(line) = 1

\* The load step of main: TRUE when open() and every json.loads succeed.
LoadOk(fs, path) ==
  /\ path \in Paths
  /\ exists(fs, path)
  /\ \A k \in 1..Len(FileLines(fs[path])) : LineParses(FileLines(fs[path])[k])

LoadedUsers(fs, path) ==
  [k \in 1..Len(FileLines(fs[path])) |-> FileLines(fs[path])[k][1]]

\* ----------------------------------------------------- group derivation
\* groups = {}; for user in users: for group in user["groups"]:
\* groups[group] = {"name": group}; groups.values() keeps first-insertion order.
GroupsKeyError(us) == \E k \in 1..Len(us) : "groups" \notin DOMAIN us[k]

\* Mutant: a list instead of a dict, a name seen again is appended again.
RECURSIVE AddGroupsNoCollapse(_, _)
AddGroupsNoCollapse(acc, names) ==
  IF names = <<>> THEN acc
  ELSE AddGroupsNoCollapse(Append(acc, [name |-> Head(names)]), Tail(names))

RECURSIVE AddGroups(_, _)
AddGroups(acc, names) ==
  IF names = <<>> THEN acc
  ELSE LET g == [name |-> Head(names)]
       IN  AddGroups(IF \E k \in 1..Len(acc) : acc[k] = g THEN acc ELSE Append(acc, g),
                     Tail(names))

RECURSIVE DeriveGroups(_, _)
DeriveGroups(acc, us) ==
  IF us = <<>> THEN acc
  ELSE DeriveGroups(AddGroups(acc, Head(us).groups), Tail(us))

\* ------------------------------------------------------------ import_value
name_key(object_type) == IF object_type = "group" THEN "name" ELSE "username"

\* Mutant: only an absent key counts, an empty name goes to the server.
NameMissingOnlyAbsent(value, key) == key \notin DOMAIN value

\* name = value.get(name_key); "if not name"
NameMissing(value, key) == key \notin DOMAIN value \/ value[key] = ""

ImportResult == { "FAILED", "LOADED", "EXISTS", "SKIPPED" }

\* What api.post(object_type, value) can do: return a truthy or a falsy
\* value, or raise KeycloakConflictError, KeycloakAuthenticationError or any
\* other error (KeycloakCommunicationError, ConnectionError, ...).
Responses == { "True", "False", "Conflict", "Authentication", "Communication" }

\* The responses that are neither a creation nor a conflict.
Faults == { "False", "Authentication", "Communication" }

\* The server answers a create for an object it already holds with a
\* conflict and never creates it again; any call may fail instead.
post(srv, object_type, value) ==
  IF <<object_type, value[name_key(object_type)]>> \in srv
  THEN { "Conflict" } \cup Faults
  ELSE { "True" } \cup Faults

\* Mutant: no handler for KeycloakConflictError, a conflict is one more failure.
ResultOfPostNoConflictHandler(response) ==
  CASE response = "True" -> "LOADED"
    [] response = "False" -> "None"
    [] OTHER -> "FAILED"

\* The try statement of import_value: "if success: return LOADED", the
\* handler of KeycloakConflictError, the handler of Exception (which every
\* other error, KeycloakAuthenticationError included, is an instance of),
\* and the fall off the end of the function (None) after a falsy return.
ResultOfPost(response) ==
  CASE response = "True" -> "LOADED"
    [] response = "False" -> "None"
    [] response = "Conflict" -> "EXISTS"
    [] OTHER -> "FAILED"

\* Mutant: the conflict handler caches the record for retry like any error.
CachesOnPostConflictToo(response) == response \notin { "True", "False" }

\* Whether the branch taken for the response calls cache_object.
CachesOnPost(response) == response \notin { "True", "False", "Conflict" }

VARIABLES
  run,           \* number of the current invocation of main()
  pc,            \* where main() is
  file_input,    \* the -f argument, "none" when not given
  retry_input,   \* the -f argument is a retry cache a summary said to re-run with
  files,         \* the working directory: path -> content
  advised,       \* retry caches on disk that a summary said to re-run with
  server,        \* the objects the Keycloak server holds: <<type, name>>
  faults,        \* create calls that have failed so far
  dpos,          \* rows discover() has cached so far
  rows,          \* the rows of database_users that discover() has gone through
  users,         \* main's users list
  groups,        \* main's groups list
  object_type,   \* the pass populate_keycloak is running ("none" outside)
  values,        \* its batch
  tpc,           \* per record of the batch: where its import_value call is
  resp,          \* per record: what api.post did ("none" before it returns)
  outcome,       \* per record: what import_value returned ("none" before)
  add_new_line,  \* per record: cache_object's local add_new_line
  calls,         \* per record: how many times api.post was called for it
  summary,       \* per object type: the summary written in this run
  started,       \* object types whose pass was started in this run
  diagnostic     \* what ended the run: the message logged or the exception raised

vars == << run, pc, file_input, retry_input, files, advised, server, faults, dpos,
           rows, users, groups, object_type, values, tpc, resp, outcome, add_new_line,
           calls, summary, started, diagnostic >>

\* The arguments and locals of main().
mainVars == << run, file_input, retry_input, dpos, rows, users, groups >>
\* The locals of populate_keycloak() and of its import_value calls.
passVars == << object_type, values, tpc, resp, outcome, add_new_line, calls >>
\* What the run has printed and logged.
logVars == << summary, started, diagnostic >>

NoSummary == <<>>
Types == { "group", "user" }
Terminal == { "done", "nothing", "aborted", "crashed" }

InputChoices == Paths \cup { "none" }

Batch == 1..Len(values)
InFlight == { i \in Batch : tpc[i] = "posting" }
Running == { i \in Batch : tpc[i] \notin { "queued", "done" } }

NoPass ==
  /\ object_type' = "none"
  /\ values' = <<>>
  /\ tpc' = <<>>
  /\ resp' = <<>>
  /\ outcome' = <<>>
  /\ add_new_line' = <<>>
  /\ calls' = <<>>

RunStart(n, f) ==
  /\ run' = n
  /\ pc' = "connect"
  /\ file_input' = f
  /\ retry_input' = (f \in advised)
  /\ dpos' = 0
  /\ rows' = <<>>
  /\ users' = <<>>
  /\ groups' = <<>>
  /\ NoPass
  /\ summary' = [t \in Types |-> NoSummary]
  /\ started' = {}
  /\ diagnostic' = "none"

Init ==
  /\ run = 1
  /\ pc = "connect"
  /\ file_input \in InputChoices
  /\ retry_input = FALSE
  /\ files = [p \in Paths |-> Absent]
  /\ advised = {}
  /\ server = {}
  /\ faults = 0
  /\ dpos = 0
  /\ rows = <<>>
  /\ users = <<>>
  /\ groups = <<>>
  /\ object_type = "none"
  /\ values = <<>>
  /\ tpc = <<>>
  /\ resp = <<>>
  /\ outcome = <<>>
  /\ add_new_line = <<>>
  /\ calls = <<>>
  /\ summary = [t \in Types |-> NoSummary]
  /\ started = {}
  /\ diagnostic = "none"

\* A new invocation of main() in the same working directory.
NextRun ==
  /\ pc \in Terminal
  /\ run < MaxRuns
  /\ \E f \in InputChoices : RunStart(run + 1, f)
  /\ UNCHANGED << files, advised, server, faults >>

\* keycloak_api.check_connection(): ConnectionError ends the run.
CheckConnection ==
  /\ pc = "connect"
  /\ \E ok \in BOOLEAN :
       /\ pc' = IF ok THEN "select" ELSE "aborted"
       /\ diagnostic' = IF ok THEN diagnostic ELSE "Failed to connect to Keycloak server"
  /\ UNCHANGED << mainVars, passVars, summary, started, files, advised, server,
                  faults >>

\* Lines 102-124: an input file is used as it is; with none and a cache on
\* disk the user answers y (import from the cache) or n (rediscover); before
\* discovery the old cache is removed.
SelectInput ==
  /\ pc = "select"
  /\ \E response \in { "y", "n" } :
       LET chosen == IF file_input = "none" /\ exists(files, cache_file_path)
                        /\ response = "y"
                     THEN cache_file_path ELSE file_input
       IN  IF chosen # "none"
           THEN /\ file_input' = chosen
                /\ pc' = "load"
                /\ files' = files
           ELSE /\ file_input' = cache_file_path
                /\ pc' = "discover"
                /\ files' = remove(files, cache_file_path)
  /\ UNCHANGED << run, retry_input, dpos, rows, users, groups, passVars, logVars, advised,
                  server, faults >>

\* discover(): one more row of the query, out of the records the database
\* can hold, is written with cache_object.
DiscoverRowOf(database_users) ==
  /\ pc = "discover"
  /\ dpos < MaxUsers
  /\ \E user \in database_users :
       /\ files' = cache_object(files, cache_file_path, user)
       /\ rows' = Append(rows, user)
  /\ dpos' = dpos + 1
  /\ UNCHANGED << run, pc, file_input, retry_input, users, groups, passVars, logVars,
                  advised, server, faults >>

DiscoverRow == DiscoverRowOf(UserRecords)

\* discover() returns: the query had no more rows.
DiscoverDone ==
  /\ pc = "discover"
  /\ pc' = "load"
  /\ UNCHANGED << mainVars, passVars, logVars, files, advised, server, faults >>

\* discover() raises (connection or query error, at any row); main's handler
\* calls os.remove(cache_file_path) and returns.  os.remove raises
\* FileNotFoundError when no row was cached yet, out of main.
DiscoverFail ==
  /\ pc = "discover"
  /\ IF exists(files, cache_file_path)
     THEN /\ files' = remove(files, cache_file_path)
          /\ pc' = "aborted"
          /\ diagnostic' = "User discovery failed"
     ELSE /\ files' = files
          /\ pc' = "crashed"
          /\ diagnostic' = "FileNotFoundError"
  /\ UNCHANGED << mainVars, passVars, summary, started, advised, server, faults >>

\* Lines 137-148: read file_input line by line.
LoadUsers ==
  /\ pc = "load"
  /\ IF ~LoadOk(files, file_input)
     THEN /\ pc' = "aborted"
          /\ users' = users
          /\ diagnostic' = "Failed to load users"
     ELSE /\ users' = LoadedUsers(files, file_input)
          /\ pc' = IF users' = <<>> THEN "nothing" ELSE "derive"
          /\ diagnostic' = IF users' = <<>> THEN "No users found" ELSE diagnostic
  /\ UNCHANGED << run, file_input, retry_input, dpos, rows, groups, passVars, summary, started,
                  files, advised, server, faults >>

\* Lines 150-155: user["groups"] raises KeyError, out of main, for a record
\* without that key.
ParseGroups ==
  /\ pc = "derive"
  /\ IF GroupsKeyError(users)
     THEN /\ pc' = "crashed"
          /\ groups' = groups
          /\ diagnostic' = "KeyError groups"
     ELSE /\ pc' = "begin_group"
          /\ groups' = DeriveGroups(<<>>, users)
          /\ diagnostic' = diagnostic
  /\ UNCHANGED << run, file_input, retry_input, dpos, rows, users, passVars, summary, started,
                  files, advised, server, faults >>

\* ------------------------------------------------------ populate_keycloak
\* Lines 170-176: the for loop over import_objects, group before user.
ValuesOf(t) == IF t = "group" THEN groups ELSE users

\* Mutant: a group pass with failed or skipped records ends the run.
AfterPassStopOnFailure(t) ==
  IF t = "user" THEN "done"
  ELSE IF \E i \in 1..Len(outcome) : outcome[i] \in { "FAILED", "SKIPPED" } THEN "done"
  ELSE "begin_user"

AfterPass(t) == IF t = "group" THEN "begin_user" ELSE "done"

\* Lines 262-286: remove the previous retry cache, hand the batch to
\* process_map.
PassBegin(t) ==
  /\ pc = IF t = "group" THEN "begin_group" ELSE "begin_user"
  /\ pc' = "pass"
  /\ object_type' = t
  /\ values' = ValuesOf(t)
  /\ files' = remove(files, retry_cache_path(t))
  /\ advised' = advised \ { retry_cache_path(t) }
  /\ tpc' = [i \in 1..Len(ValuesOf(t)) |-> "queued"]
  /\ resp' = [i \in 1..Len(ValuesOf(t)) |-> "none"]
  /\ outcome' = [i \in 1..Len(ValuesOf(t)) |-> "none"]
  /\ add_new_line' = [i \in 1..Len(ValuesOf(t)) |-> FALSE]
  /\ calls' = [i \in 1..Len(ValuesOf(t)) |-> 0]
  /\ started' = started \cup { t }
  /\ UNCHANGED << mainVars, summary, diagnostic, server, faults >>

\* Mutant: unbounded fan-out, every record gets a process of its own.
CanStartUnbounded(i) ==
  /\ tpc[i] = "queued"
  /\ \A j \in 1..(i - 1) : tpc[j] # "queued"

\* Mutant: a record whose call failed is handed to the pool again.
CanStartFailedAgain(i) ==
  /\ \/ tpc[i] = "queued"
     \/ tpc[i] = "done" /\ outcome[i] = "FAILED"
  /\ \A j \in 1..(i - 1) : tpc[j] # "queued"
  /\ Cardinality(Running) < max_workers

\* The pool: work items are taken in submission order, and a record's
\* import_value call starts only when one of the max_workers processes is free.
CanStart(i) ==
  /\ tpc[i] = "queued"
  /\ \A j \in 1..(i - 1) : tpc[j] # "queued"
  /\ Cardinality(Running) < max_workers

\* Lines 228-239 and 328-330: import_value reads the name; without one it
\* logs, enters cache_object and tests whether the retry cache exists,
\* otherwise it calls api.post.
StartImport(i) ==
  /\ pc = "pass"
  /\ CanStart(i)
  /\ IF NameMissing(values[i], name_key(object_type))
     THEN /\ tpc' = [tpc EXCEPT ![i] = "open"]
          /\ outcome' = [outcome EXCEPT ![i] = "SKIPPED"]
          /\ add_new_line' = [add_new_line EXCEPT
                                ![i] = exists(files, retry_cache_path(object_type))]
          /\ calls' = calls
     ELSE /\ tpc' = [tpc EXCEPT ![i] = "posting"]
          /\ outcome' = outcome
          /\ add_new_line' = add_new_line
          /\ calls' = [calls EXCEPT ![i] = @ + 1]
  /\ UNCHANGED << mainVars, logVars, pc, object_type, values, resp, files, advised,
                  server, faults >>

\* Lines 239-256 and 328-330: api.post returns or raises; in the handler of
\* Exception import_value logs, enters cache_object and tests whether the
\* retry cache exists.
PostReturns(i) ==
  /\ pc = "pass"
  /\ tpc[i] = "posting"
  /\ \E response \in post(server, object_type, values[i]) :
       /\ response \in Faults => faults < MaxFaults
       /\ faults' = IF response \in Faults THEN faults + 1 ELSE faults
       /\ resp' = [resp EXCEPT ![i] = response]
       /\ outcome' = [outcome EXCEPT ![i] = ResultOfPost(response)]
       /\ tpc' = [tpc EXCEPT ![i] = IF CachesOnPost(response) THEN "open" ELSE "done"]
       /\ add_new_line' = IF CachesOnPost(response)
                          THEN [add_new_line EXCEPT
                                  ![i] = exists(files, retry_cache_path(object_type))]
                          ELSE add_new_line
       /\ server' = IF response = "True"
                    THEN server \cup { <<object_type, values[i][name_key(object_type)]>> }
                    ELSE server
  /\ UNCHANGED << mainVars, summary, started, diagnostic, pc, object_type, values,
                  calls, files, advised >>

\* cache_object line 332: open(cache_file_path, "a").
CacheOpen(i) ==
  /\ pc = "pass"
  /\ tpc[i] = "open"
  /\ files' = open_append(files, retry_cache_path(object_type))
  /\ tpc' = [tpc EXCEPT ![i] = "write"]
  /\ UNCHANGED << mainVars, logVars, pc, object_type, values, resp, outcome,
                  add_new_line, calls, advised, server, faults >>

\* cache_object lines 332-336: the two write calls go to the file object's
\* buffer, which the end of the with block flushes to the file in one
\* append: the newline, if add_new_line, and the serialized record.  The
\* import_value call returns.
CacheWrite(i) ==
  /\ pc = "pass"
  /\ tpc[i] = "write"
  /\ files' = write_json(IF add_new_line[i]
                         THEN write_newline(files, retry_cache_path(object_type))
                         ELSE files,
                         retry_cache_path(object_type), values[i])
  /\ tpc' = [tpc EXCEPT ![i] = "done"]
  /\ UNCHANGED << mainVars, logVars, pc, object_type, values, resp, outcome,
                  add_new_line, calls, advised, server, faults >>

\* Lines 288-300: the tally over the results of process_map.
Count(tag) == Cardinality({ i \in Batch : outcome[i] = tag })

\* report[result] += 1 raises KeyError, out of main, for a result None.
TallyKeyError == \E i \in Batch : outcome[i] \notin ImportResult

\* Lines 302-315: the summary, with the re-run line when
\* cached_for_retry_count > 0.
Report ==
  [ total |-> Len(values),
    loaded |-> Count("LOADED"),
    failed |-> Count("FAILED"),
    existing |-> Count("EXISTS"),
    skipped |-> Count("SKIPPED"),
    cached_for_retry |-> Count("SKIPPED") + Count("FAILED"),
    rerun |-> Count("SKIPPED") + Count("FAILED") > 0 ]

\* Every record of the batch has its result.
PassFinished == pc = "pass" /\ \A i \in Batch : tpc[i] = "done"

\* process_map has returned every result: tally, print and log the summary,
\* return to main's loop.
PassEnd ==
  /\ PassFinished
  /\ IF TallyKeyError
     THEN /\ pc' = "crashed"
          /\ summary' = summary
          /\ advised' = advised
          /\ diagnostic' = "KeyError None"
     ELSE /\ pc' = AfterPass(object_type)
          /\ diagnostic' = diagnostic
          /\ summary' = [summary EXCEPT ![object_type] = << Report >>]
          /\ advised' = IF Report.rerun
                        THEN advised \cup { retry_cache_path(object_type) }
                        ELSE advised
  /\ NoPass
  /\ UNCHANGED << mainVars, started, files, server, faults >>

Next ==
  \/ NextRun
  \/ CheckConnection
  \/ SelectInput
  \/ DiscoverRow
  \/ DiscoverDone
  \/ DiscoverFail
  \/ LoadUsers
  \/ ParseGroups
  \/ \E t \in Types : PassBegin(t)
  \/ \E i \in Batch : StartImport(i)
  \/ \E i \in Batch : PostReturns(i)
  \/ \E i \in Batch : CacheOpen(i)
  \/ \E i \in Batch : CacheWrite(i)
  \/ PassEnd

Spec == Init /\ [][Next]_vars


\* ------------------------------------------------- the worker pool alone
\* A run over a discovery cache of PoolBatch users left by an earlier run,
\* in which at most one create call fails.
PoolUser == [username |-> "a", groups |-> <<"g1">>]

RECURSIVE CacheOfSize(_)
CacheOfSize(n) ==
  IF n = 0 THEN [p \in Paths |-> Absent]
  ELSE cache_object(CacheOfSize(n - 1), cache_file_path, PoolUser)

InitPool ==
  /\ run = MaxRuns
  /\ pc = "connect"
  /\ file_input = cache_file_path
  /\ retry_input = FALSE
  /\ files = CacheOfSize(PoolBatch)
  /\ advised = {}
  /\ server = {}
  /\ faults = MaxFaults - 1
  /\ dpos = MaxUsers
  /\ rows = <<>>
  /\ users = <<>>
  /\ groups = <<>>
  /\ object_type = "none"
  /\ values = <<>>
  /\ tpc = <<>>
  /\ resp = <<>>
  /\ outcome = <<>>
  /\ add_new_line = <<>>
  /\ calls = <<>>
  /\ summary = [t \in Types |-> NoSummary]
  /\ started = {}
  /\ diagnostic = "none"

NextPool ==
  \/ CheckConnection
  \/ SelectInput
  \/ LoadUsers
  \/ ParseGroups
  \/ \E t \in Types : PassBegin(t)
  \/ \E i \in Batch : StartImport(i)
  \/ \E i \in Batch : PostReturns(i)
  \/ \E i \in Batch : CacheOpen(i)
  \/ \E i \in Batch : CacheWrite(i)
  \/ PassEnd

SpecPool == InitPool /\ [][NextPool]_vars


\* ------------------------------------- discovery, load and group derivation
\* Longest "groups" list of a discovered user.
MaxGroups == 2

GroupNames == { "g1", "g2", "" }

GroupLists == UNION { [1..n -> GroupNames] : n \in 0..MaxGroups }

\* The rows the database can hold: users of every membership.
DatabaseUsers == { [username |-> "a", groups |-> gs] : gs \in GroupLists }

\* A run that has to discover, in an empty working directory, up to its
\* hand-over of the batches to populate_keycloak.
InitDiscover ==
  /\ run = MaxRuns
  /\ pc = "select"
  /\ file_input = "none"
  /\ retry_input = FALSE
  /\ files = [p \in Paths |-> Absent]
  /\ advised = {}
  /\ server = {}
  /\ faults = MaxFaults
  /\ dpos = 0
  /\ rows = <<>>
  /\ users = <<>>
  /\ groups = <<>>
  /\ object_type = "none"
  /\ values = <<>>
  /\ tpc = <<>>
  /\ resp = <<>>
  /\ outcome = <<>>
  /\ add_new_line = <<>>
  /\ calls = <<>>
  /\ summary = [t \in Types |-> NoSummary]
  /\ started = {}
  /\ diagnostic = "none"

NextDiscover ==
  \/ SelectInput
  \/ DiscoverRowOf(DatabaseUsers)
  \/ DiscoverDone
  \/ DiscoverFail
  \/ LoadUsers
  \/ ParseGroups

SpecDiscover == InitDiscover /\ [][NextDiscover]_vars


\* ------------------------------------------------------------ properties
\* The retry cache of the pass that is running.
RetryCache == files[retry_cache_path(object_type)]

\* How many times the serialization of record r was written into a file.
Occurrences(content, r) ==
  Cardinality(UNION { { <<k, m>> : m \in { n \in 1..Len(content[k]) : content[k][n] = r } } :
                      k \in 1..Len(content) })

\* How many lines of a file read back as record r.
LinesHolding(content, r) ==
  IF content = Absent THEN 0
  ELSE Cardinality({ k \in 1..Len(FileLines(content)) : FileLines(content)[k] = << r >> })

\* The records of the batch, equal to record r, that were skipped or failed.
Retryable(r) ==
  { j \in Batch : values[j] = r /\ outcome[j] \in { "SKIPPED", "FAILED" } }

Caching == { "open", "write" }

\* C1: a record whose create call raised Conflict has the outcome EXISTS and
\* its import_value call is over without having gone through cache_object:
\* the retry cache holds its serialization only as often as equal records of
\* the batch were skipped or failed, whatever the other workers do.
C1_ConflictIsExistsAndNotCached ==
  pc = "pass" =>
    \A i \in Batch :
      resp[i] = "Conflict" =>
        /\ outcome[i] = "EXISTS"
        /\ tpc[i] = "done"
        /\ Occurrences(RetryCache, values[i]) <= Cardinality(Retryable(values[i]))

\* A conflict on one record while an equal record of the batch failed and
\* was cached by another worker.
C1_Witness ==
  /\ PassFinished
  /\ \E i, j \in Batch :
       /\ resp[i] = "Conflict"
       /\ outcome[j] = "FAILED"
       /\ values[i] = values[j]

\* C2: for a record whose name field is absent or empty, api.post is never
\* called, the outcome is SKIPPED as soon as the call has started, and when
\* the call is over the record has been appended to the type's retry cache.
C2_NamelessIsSkippedCachedAndNeverPosted ==
  pc = "pass" =>
    \A i \in Batch :
      (name_key(object_type) \notin DOMAIN values[i]
         \/ values[i][name_key(object_type)] = "") =>
        /\ calls[i] = 0
        /\ resp[i] = "none"
        /\ tpc[i] # "posting"
        /\ tpc[i] # "queued" => outcome[i] = "SKIPPED"
        /\ tpc[i] = "done" =>
             Occurrences(RetryCache, values[i]) =
               Cardinality({ j \in Retryable(values[i]) : tpc[j] = "done" })

\* A finished user pass with a record without username and a finished group
\* pass with a group of empty name, next to a record that was sent.
C2_Witness ==
  /\ PassFinished
  /\ \E i, j \in Batch :
       /\ outcome[i] = "SKIPPED"
       /\ calls[j] = 1
  /\ object_type = "user"
  /\ summary["group"] # NoSummary
  /\ summary["group"][1].skipped = 1

\* C3: once the pass has finished, a record whose create call raised an
\* error other than Conflict and Authentication has the outcome FAILED and
\* is read back from the retry cache exactly once per such record.
C3_FailedIsCachedExactlyOnce ==
  PassFinished =>
    \A i \in Batch :
      resp[i] = "Communication" =>
        /\ outcome[i] = "FAILED"
        /\ LinesHolding(RetryCache, values[i]) = Cardinality(Retryable(values[i]))

\* A create call of the running pass has raised the Authentication error.
AuthenticationRaised == pc = "pass" /\ \E i \in Batch : resp[i] = "Authentication"

\* C4: an Authentication error of a create call leaves import_value (no
\* FAILED outcome, no cache_object), and from then on the pass writes no
\* summary and the run can only end aborted: no later pass is started.
C4_AuthenticationAbortsTheRun ==
  /\ [](pc = "pass" =>
         \A i \in Batch :
           resp[i] = "Authentication" => outcome[i] # "FAILED" /\ tpc[i] \notin Caching)
  /\ [][AuthenticationRaised => (summary' = summary /\ pc' \in { "pass", "aborted" })]_vars

\* C5: once a worker has observed the Authentication error, api.post is not
\* called any more for a record of the batch that was still waiting for a
\* free worker.
C5_NoCallAfterAuthentication ==
  [][ (pc = "pass" /\ Len(values) > max_workers
         /\ AuthenticationRaised)
      => \A j \in Batch : tpc[j] = "queued" => tpc'[j] # "posting" ]_vars

\* C6: at the end of the pass the retry cache is one complete record per
\* line: no two records on a line, no blank line.
C6_OneRecordPerLine ==
  (PassFinished /\ exists(files, retry_cache_path(object_type))) =>
    \A k \in 1..Len(RetryCache) : Len(RetryCache[k]) = 1

\* C7: a user pass is started only after the group pass has written its
\* summary, which counts every group record; there is one batch in the pool
\* at a time; and once the group summary is written the user pass is the
\* next thing the run does, whatever the group outcomes were.
C7_GroupsCompleteBeforeUsers ==
  /\ (object_type = "user" \/ "user" \in started \/ pc = "begin_user") =>
       /\ summary["group"] # NoSummary
       /\ summary["group"][1].total = Len(groups)
       /\ summary["group"][1].loaded + summary["group"][1].existing
            + summary["group"][1].skipped + summary["group"][1].failed = Len(groups)
  /\ (pc = "pass" /\ object_type = "group") =>
       /\ "user" \notin started
       /\ values = groups
  /\ (pc = "pass" /\ object_type = "user") => values = users
  /\ summary["group"] # NoSummary => (pc = "begin_user" \/ "user" \in started)

\* A create call for a user is in flight after a group pass in which a
\* record failed and another was skipped.
C7_Witness ==
  /\ pc = "pass"
  /\ object_type = "user"
  /\ InFlight # {}
  /\ summary["group"][1].failed > 0
  /\ summary["group"][1].skipped > 0

\* C8: at most 8 create calls are in flight at any time.
C8_InFlightAtMostPoolWidth == Cardinality(InFlight) <= 8

\* Eight calls in flight and a ninth record waiting.
C8_Witness ==
  /\ Cardinality(InFlight) = 8
  /\ \E i \in Batch : tpc[i] = "queued"

\* The user pass of a run whose input file is the user retry cache that the
\* previous run's summary said to re-run with.
RetryPass ==
  /\ pc = "pass"
  /\ object_type = "user"
  /\ retry_input
  /\ file_input = retry_cache_path("user")

\* C9 as claimed: the pass over the previous run's retry cache gives no
\* record the outcome SKIPPED or FAILED.  Read in the claim's favour: a
\* record whose create call fails again in the re-run is not counted.
C9_RetryGivesOnlyExistsOrLoaded ==
  RetryPass =>
    \A i \in Batch :
      (tpc[i] # "queued" /\ resp[i] \notin Faults) => outcome[i] \notin { "SKIPPED", "FAILED" }

\* C9 amended: in the pass over the previous run's retry cache a record
\* without a name is SKIPPED again, a record whose call fails again is
\* FAILED again, and every other record is LOADED when the call returned a
\* truthy value and EXISTS when it raised Conflict; no call is made for an
\* object the record's own earlier call found on the server.
C9_RetryOutcomes ==
  RetryPass =>
    \A i \in Batch :
      tpc[i] = "done" =>
        /\ outcome[i] = "SKIPPED" <=>
             ("username" \notin DOMAIN values[i] \/ values[i]["username"] = "")
        /\ outcome[i] = "FAILED" <=> resp[i] \in { "Authentication", "Communication" }
        /\ outcome[i] = "LOADED" <=> resp[i] = "True"
        /\ outcome[i] = "EXISTS" <=> resp[i] = "Conflict"
        /\ outcome[i] = "EXISTS" => <<"user", values[i]["username"]>> \in server
        /\ calls[i] <= 1

\* The retry pass is over with one record skipped again and one loaded.
C9_Witness ==
  /\ RetryPass
  /\ PassFinished
  /\ \E i, j \in Batch : outcome[i] = "SKIPPED" /\ outcome[j] = "LOADED"

\* C10: a run whose input file is a retry cache that a summary said to
\* re-run with gets through the load and the group derivation.
C10_AdvisedRetryCacheIsAccepted ==
  retry_input => diagnostic \notin { "Failed to load users", "KeyError groups" }

\* The strings occurring in the "groups" field of some record of a list.
GroupNamesOf(us) ==
  UNION { { us[k].groups[m] : m \in 1..Len(us[k].groups) } : k \in 1..Len(us) }

\* The permutations of a list.
PermutationsOf(us) ==
  { [k \in 1..Len(us) |-> us[f[k]]] :
      f \in { g \in [1..Len(us) -> 1..Len(us)] :
                \A a, b \in 1..Len(us) : g[a] = g[b] => a = b } }

NamesIn(gs) == { gs[k].name : k \in 1..Len(gs) }

\* C11: the group batch main hands to populate_keycloak holds, for each
\* distinct string of the users' "groups" fields, exactly one record
\* {"name": g}, and nothing else; and deriving the groups from any
\* permutation of the user list gives the same set of names.
C11_OneGroupPerNameAnyOrder ==
  pc = "begin_group" =>
    /\ \A g \in GroupNamesOf(users) :
         Cardinality({ k \in 1..Len(groups) : groups[k] = [name |-> g] }) = 1
    /\ \A k \in 1..Len(groups) :
         \E g \in GroupNamesOf(users) : groups[k] = [name |-> g]
    /\ \A p \in PermutationsOf(users) :
         /\ NamesIn(DeriveGroups(<<>>, p)) = NamesIn(groups)
         /\ Len(DeriveGroups(<<>>, p)) = Len(groups)

\* Two users that share a group and differ in another, one of them naming
\* a group twice: the batch is shorter than the memberships, and the other
\* order of the users gives the same groups in another order.
C11_Witness ==
  /\ pc = "begin_group"
  /\ Len(users) = 2
  /\ GroupNamesOf(<< users[1] >>) \cap GroupNamesOf(<< users[2] >>) # {}
  /\ GroupNamesOf(<< users[1] >>) # GroupNamesOf(<< users[2] >>)
  /\ \E k \in 1..2 : Len(users[k].groups) > Cardinality(GroupNamesOf(<< users[k] >>))
  /\ DeriveGroups(<<>>, << users[2], users[1] >>) # groups

\* C12: the rows discover() has appended with cache_object, one after
\* another to a file that did not exist, are what main's line-by-line read
\* gives back: as many records, equal and in the order of the appends, from
\* a file of as many lines, none of them blank; the load does not fail.
C12_StoreRoundTrip ==
  rows # <<>> =>
    /\ pc \in { "discover", "load" } =>
         /\ LoadOk(files, cache_file_path)
         /\ LoadedUsers(files, cache_file_path) = rows
         /\ Len(files[cache_file_path]) = Len(rows)
         /\ \A k \in 1..Len(files[cache_file_path]) : files[cache_file_path][k] # <<>>
    /\ pc \in { "derive", "begin_group" } => users = rows
    /\ pc # "nothing"
    /\ diagnostic # "Failed to load users"

\* The load has read back two different rows.
C12_Witness ==
  /\ pc = "derive"
  /\ Len(rows) >= 2
  /\ rows[1] # rows[2]
  /\ users = rows

\* C13: when discover() fails, after any number of rows, zero included,
\* the run goes from the discovery to the aborted state (main returns), no
\* import pass has been started and no discovery cache is on disk.
C13_DiscoveryFailureAborts ==
  [][ (pc = "discover" /\ pc' \notin { "discover", "load" })
      => /\ pc' = "aborted"
         /\ started' = {}
         /\ ~exists(files', cache_file_path) ]_vars

\* C14: a record whose import_value call is over, and whose create call
\* did not raise the Authentication error, has one of the four outcomes;
\* and a batch without an Authentication error gets through the tally to
\* its summary.
C14_EveryResultIsAnOutcome ==
  pc = "pass" =>
    /\ \A i \in Batch :
         (tpc[i] = "done" /\ resp[i] # "Authentication") => outcome[i] \in ImportResult
    /\ (PassFinished /\ \A i \in Batch : resp[i] # "Authentication") => ~TallyKeyError

\* The records of the batch that were skipped or failed.
Retried == { i \in Batch : outcome[i] \in { "SKIPPED", "FAILED" } }

\* C15: when the pass is over and goes on to its summary, the type's retry
\* cache reads back as exactly the records of the batch that were skipped
\* or failed (as many lines as such records, each record on as many lines
\* as it was skipped or failed), whatever an earlier run had left in the
\* file; and there is no such file when no record was skipped or failed.
C15_RetryCacheIsThisPassFailures ==
  (PassFinished /\ ~TallyKeyError) =>
    IF Retried = {}
    THEN ~exists(files, retry_cache_path(object_type))
    ELSE /\ exists(files, retry_cache_path(object_type))
         /\ Len(FileLines(RetryCache)) = Cardinality(Retried)
         /\ \A i \in Batch :
              LinesHolding(RetryCache, values[i]) = Cardinality(Retryable(values[i]))

\* The number of records a file holds for a line-by-line reader: its lines
\* that are one serialized record.
RecordsIn(content) ==
  IF content = Absent THEN 0
  ELSE Cardinality({ k \in 1..Len(FileLines(content)) : LineParses(FileLines(content)[k]) })

\* C16: the step that writes a pass's summary is taken when every record of
\* the batch has its outcome; the summary's loaded, failed, existing and
\* skipped counts sum to the batch size; it holds the re-run line exactly
\* when skipped + failed > 0; and its retry count is the number of records
\* in the type's retry cache at that moment.
C16_SummaryCountsTheBatch ==
  [][ (pc = "pass" /\ summary' # summary)
      => /\ \A i \in Batch : tpc[i] = "done" /\ outcome[i] \in ImportResult
         /\ summary'[object_type] # NoSummary
         /\ LET s == summary'[object_type][1]
            IN  /\ s.loaded + s.failed + s.existing + s.skipped = Len(values)
                /\ s.rerun <=> (s.skipped + s.failed > 0)
                /\ s.cached_for_retry = RecordsIn(files'[retry_cache_path(object_type)]) ]_vars

\* C17: in a pass api.post is called at most once for each record of the
\* batch: a record whose call has returned or raised (Conflict and the
\* failures included) has had its one call and is neither waiting for a
\* worker nor in a call again.
C17_AtMostOneCallPerRecord ==
  pc = "pass" =>
    \A i \in Batch :
      /\ calls[i] <= 1
      /\ resp[i] # "none" => (calls[i] = 1 /\ tpc[i] \notin { "queued", "posting" })

\* A finished pass in which one record met a conflict and another a failure.
C17_Witness ==
  /\ PassFinished
  /\ \E i, j \in Batch :
       /\ resp[i] = "Conflict" /\ calls[i] = 1
       /\ resp[j] = "Communication" /\ calls[j] = 1

\* The run works on an input file it did not discover: file_input is the
\* -f argument (before the selection, whenever it is set; after it,
\* whenever it is not the discovery cache) or the cache chosen with "y".
InputGiven ==
  /\ file_input # "none"
  /\ rows = <<>>
  /\ pc \notin Terminal \cup { "discover" }

\* C18: no step of a run with an input file starts the discovery, changes
\* the discovery cache, or removes or changes the input file.
C18_InputFileIsLeftAlone ==
  [][ InputGiven
      => /\ pc' # "discover"
         /\ files'[cache_file_path] = files[cache_file_path]
         /\ files'[file_input] = files[file_input] ]_vars

\* C19: in a run that discovers, once discover() has returned the
\* discovery cache exists and the load step does not fail, whatever the
\* number of rows; after zero rows the load step ends the run through "No
\* users found", with no import pass started.
C19_CompletedDiscoveryLoads ==
  [][ pc = "load"
      => /\ exists(files, cache_file_path)
         /\ pc' # "aborted"
         /\ rows = <<>> => (pc' = "nothing" /\ started' = {}) ]_vars

====
